---- MODULE Spec2Model ----
(***************************************************************************)
(* Model of the Summary component of Portfolio-Tracker                     *)
(* (src/components/Summary.tsx): the component's state (timeRange,         *)
(* customStart, customEnd, hoverData), the assets prop, and the result of  *)
(* the chart useMemo (time window, synthesized series, stacked regions,    *)
(* geometry); and of the App (src/App.tsx): the portfolio, its handlers    *)
(* and their suspended continuations, and the snapshot history.            *)
(*                                                                         *)
(* Specifications: Spec (the component over a fixed asset list),           *)
(* HoverSpec (the pointer over the rendered chart), AppSpec (the App's     *)
(* handlers), LiveSpec (the handlers, every awaited promise settling) and  *)
(* HistorySpec (recordHistorySnapshot).                                    *)
(*                                                                         *)
(* Numbers.  JavaScript numbers are modelled exactly:                      *)
(*  - a time is an integer count of ticks, or NaN.  One day (86400000 ms   *)
(*    in the source) is TicksPerDay ticks, so the three lookbacks are 1, 7 *)
(*    and 30 days as in the source.  TicksPerDay is a multiple of          *)
(*    EpsDen * Steps, which makes  x * 0.00001  (line 82) and              *)
(*    (maxTime - minTime) / 150  (line 119) exact integers for every time  *)
(*    that is a whole number of days;                                      *)
(*  - quantities, costs and the prices of transactions, of history samples *)
(*    and of assets are integers; an estimated price and every value       *)
(*    derived from one is held in units of 1 / MoneyScale, in which the    *)
(*    interpolation between two times a whole number of days apart is      *)
(*    exact.  A division that would not be exact is an evaluation error,   *)
(*    never a rounded result.                                              *)
(* Rounding of IEEE doubles is therefore not part of the model.            *)
(***************************************************************************)
EXTENDS Integers, Sequences, FiniteSets, TLC

VARIABLES
    assets,        \* prop  assets: Asset[]                       (line 7)
    timeRange,     \* state timeRange                             (line 26)
    customStart,   \* state customStart                           (line 27)
    customEnd,     \* state customEnd                             (line 28)
    clock,         \* the wall clock, what Date.now() returns
    now,           \* const now = Date.now() of the last computation (line 55)
    minTime,       \* memo result minTime                         (line 314)
    maxTime,       \* memo result maxTime                         (line 314)
    chartData,     \* memo result chartData = generatedData       (line 314)
    locals,        \* per point and asset, the locals of the loop body (lines 131-199)
    stackedPaths,  \* the regions pushed to stackedPaths          (line 229)
    maxY,          \* memo result maxY = computedMaxY             (line 314)
    costPath,      \* the y of costPathPoints                     (line 278)
    xCoords,       \* getX(d.timestamp) of each point  (lines 243, 249, 278)
    raised,        \* whether the memo's computation threw
    hoverData,     \* state hoverData                            (line 29)
    pointer,       \* the locals of the last handleMouseMove     (lines 327-337)
    isLoading,     \* App state isLoading                         (App.tsx line 21)
    inflight,      \* the App's async handlers suspended at an await
    issued,        \* how many ids Date.now() has been asked for  (App.tsx lines 86, 116)
    history,       \* App state history                          (App.tsx line 16)
    calls,         \* how many times recordHistorySnapshot was called
    idle,          \* how many of the calls found a total value of 0
    recorded       \* every snapshot handed to setHistory, in recording order

vars == <<assets, timeRange, customStart, customEnd, clock, now,
          minTime, maxTime, chartData, locals, stackedPaths, maxY, costPath,
          xCoords, raised, hoverData, pointer, isLoading, inflight, issued,
          history, calls, idle, recorded>>

(* the state of App.tsx besides assets, and the state of Summary.tsx *)
appVars == <<isLoading, inflight, issued>>
historyVars == <<history, calls, idle, recorded>>
hoverVars == <<hoverData, pointer>>
summaryVars == <<timeRange, customStart, customEnd, clock, now, minTime, maxTime,
                 chartData, locals, stackedPaths, maxY, costPath, xCoords, raised,
                 hoverVars>>

----------------------------------------------------------------------------
(* Program constants *)

Steps == 150                 \* const steps = 150
EpsDen == 100000             \* 0.00001 = 1 / EpsDen
TicksPerDay == EpsDen * Steps
DayMs == TicksPerDay         \* 24 * 60 * 60 * 1000
WeekMs == 7 * DayMs          \* 7 * 24 * 60 * 60 * 1000
MonthMs == 30 * DayMs        \* 30 * 24 * 60 * 60 * 1000

TimeRanges == {"24H", "1W", "1M", "ALL", "CUSTOM"}

----------------------------------------------------------------------------
(* Bounds *)

StartClock == 3              \* earliest wall clock of a behaviour, in days
MaxClock == 4                \* latest wall clock of a behaviour, in days
MaxAssets == 3               \* longest asset list
MaxAdds == 3                 \* calls of handleAddAsset in a behaviour
MaxInflight == 1             \* async handlers suspended at the same time

----------------------------------------------------------------------------
(* Numbers: a time is [nan, v]; NaN compares false with everything. *)

(* a / b where b divides a; undefined (an evaluation error) otherwise *)
ExactDiv(a, b) == CASE a % b = 0 -> a \div b

NaN == [nan |-> TRUE, v |-> 0]
Num(x) == [nan |-> FALSE, v |-> x]
IsFinite(a) == ~a.nan
NumLt(a, b) == ~a.nan /\ ~b.nan /\ a.v < b.v
NumLe(a, b) == ~a.nan /\ ~b.nan /\ a.v <= b.v
NumGe(a, b) == ~a.nan /\ ~b.nan /\ a.v >= b.v
NumAdd(a, b) == IF a.nan \/ b.nan THEN NaN ELSE Num(a.v + b.v)
NumSub(a, b) == IF a.nan \/ b.nan THEN NaN ELSE Num(a.v - b.v)
NumMulInt(a, k) == IF a.nan THEN NaN ELSE Num(a.v * k)
NumDivInt(a, k) == IF a.nan THEN NaN ELSE Num(ExactDiv(a.v, k))

(* new Date(s).getTime(): a transaction date is a parseable date string,   *)
(* held here as its day number.                                            *)
GetTime(date) == date * TicksPerDay

(* The value of a date input: "" (empty), a date, or a string Date cannot  *)
(* parse, for which getTime() is NaN.                                      *)
EmptyStr == [kind |-> "empty", day |-> 0]
Unparseable == [kind |-> "invalid", day |-> 0]
DateStr(d) == [kind |-> "date", day |-> d]
Truthy(s) == s.kind # "empty"
ParseTime(s) == IF s.kind = "date" THEN Num(GetTime(s.day)) ELSE NaN

----------------------------------------------------------------------------
(* 1. Determine Time Window (lines 55-89) *)

RECURSIVE MinTxTime(_, _, _)
MinTxTime(txs, k, acc) ==
    IF k > Len(txs) THEN acc
    ELSE LET t == GetTime(txs[k].date)
         IN MinTxTime(txs, k + 1, IF t < acc THEN t ELSE acc)

RECURSIVE ScanAssets(_, _, _)
ScanAssets(as, k, acc) ==
    IF k > Len(as) THEN acc
    ELSE ScanAssets(as, k + 1, MinTxTime(as[k].transactions, 1, acc))

FirstTxTimestamp_NoFallback(as, n) == ScanAssets(as, 1, n)

FirstTxTimestamp(as, n) ==
    LET first == ScanAssets(as, 1, n)
    IN IF Len(as) = 0 \/ first = n THEN n - DayMs ELSE first

Lookback_Swapped(tr) ==
    CASE tr = "24H" -> DayMs
      [] tr = "1W" -> MonthMs
      [] tr = "1M" -> WeekMs

Lookback(tr) ==
    CASE tr = "24H" -> DayMs
      [] tr = "1W" -> WeekMs
      [] tr = "1M" -> MonthMs

EpsilonBias_None(m) == m

EpsilonBias(m) == m - ExactDiv(m, EpsDen)

EnsureWindow(lo, hi) ==
    IF NumGe(lo, hi) THEN NumSub(hi, Num(DayMs)) ELSE lo

ResolveWindow_EndAlone(as, tr, cs, ce, n) ==
    LET custom == tr = "CUSTOM" /\ Truthy(cs)
        lo == CASE tr \in {"24H", "1W", "1M"} -> Num(n - Lookback(tr))
                [] tr = "ALL" -> Num(EpsilonBias(FirstTxTimestamp(as, n)))
                [] custom -> ParseTime(cs)
                [] OTHER -> Num(n)
        hi == IF tr = "CUSTOM" /\ Truthy(ce) THEN ParseTime(ce) ELSE Num(n)
    IN [minTime |-> EnsureWindow(lo, hi), maxTime |-> hi]

ResolveWindow(as, tr, cs, ce, n) ==
    LET custom == tr = "CUSTOM" /\ Truthy(cs)
        lo == CASE tr \in {"24H", "1W", "1M"} -> Num(n - Lookback(tr))
                [] tr = "ALL" -> Num(EpsilonBias(FirstTxTimestamp(as, n)))
                [] custom -> ParseTime(cs)
                [] OTHER -> Num(n)
        hi == IF custom /\ Truthy(ce) THEN ParseTime(ce) ELSE Num(n)
    IN [minTime |-> EnsureWindow(lo, hi), maxTime |-> hi]

----------------------------------------------------------------------------
(* Money: an integer count of units of 1 / MoneyScale *)

SpanLcm == 2 * 3             \* every span of 1, 2 or 3 days divides it
MoneyScale == SpanLcm * TicksPerDay
Money(k) == k * MoneyScale

(* p1 + (p2 - p1) * ((t - t1) / span), lines 167-168 and 187-188 *)
Interpolate(t1, p1, t2, p2, t) ==
    LET span == t2 - t1
    IN Money(p1) + (p2 - p1) * ((t - t1) * ExactDiv(MoneyScale, span))

----------------------------------------------------------------------------
(* 2. Build Price Anchors (lines 94-115) *)

HasHistory(asset) == Len(asset.priceHistory) > 0

AnchorList(asset, n) ==
    Append([k \in 1..Len(asset.transactions) |->
               [time |-> GetTime(asset.transactions[k].date),
                price |-> asset.transactions[k].pricePerCoin]],
           [time |-> n, price |-> asset.currentPrice])

(* anchors.sort((a, b) => a.time - b.time): a stable sort *)
RECURSIVE InsertByTime(_, _)
InsertByTime(sorted, a) ==
    IF Len(sorted) = 0 THEN <<a>>
    ELSE IF sorted[Len(sorted)].time <= a.time THEN Append(sorted, a)
    ELSE Append(InsertByTime(SubSeq(sorted, 1, Len(sorted) - 1), a),
                sorted[Len(sorted)])

RECURSIVE SortByTime(_)
SortByTime(s) ==
    IF Len(s) = 0 THEN <<>>
    ELSE InsertByTime(SortByTime(SubSeq(s, 1, Len(s) - 1)), s[Len(s)])

UniqueAnchors_KeepLast(anchors) ==
    LET keep == {i \in 1..Len(anchors) :
                    i = Len(anchors) \/ anchors[i].time < anchors[i + 1].time}
        RECURSIVE Pick(_)
        Pick(i) == IF i > Len(anchors) THEN <<>>
                   ELSE IF i \in keep THEN <<anchors[i]>> \o Pick(i + 1)
                   ELSE Pick(i + 1)
    IN Pick(1)

(* uniqueAnchors of lines 104-112 *)
UniqueAnchors(anchors) ==
    LET keep == {i \in 1..Len(anchors) :
                    i = 1 \/ anchors[i].time > anchors[i - 1].time}
        RECURSIVE Pick(_)
        Pick(i) == IF i > Len(anchors) THEN <<>>
                   ELSE IF i \in keep THEN <<anchors[i]>> \o Pick(i + 1)
                   ELSE Pick(i + 1)
    IN Pick(1)

PriceAnchors(asset, n) == UniqueAnchors(SortByTime(AnchorList(asset, n)))

----------------------------------------------------------------------------
(* 3.A Cumulative quantity and cost at time t (lines 131-140) *)

(* txTime <= t, txTime a number and t possibly NaN *)
TimeLt(txTime, t) == ~t.nan /\ txTime < t.v
TimeLe(txTime, t) == ~t.nan /\ txTime <= t.v

RECURSIVE CumulativeAt_NoFilter(_, _, _)
CumulativeAt_NoFilter(txs, t, k) ==
    IF k = 0 THEN [qtyAtTime |-> 0, costAtTime |-> 0]
    ELSE LET acc == CumulativeAt_NoFilter(txs, t, k - 1)
         IN [qtyAtTime |-> acc.qtyAtTime + txs[k].quantity,
             costAtTime |-> acc.costAtTime + txs[k].totalCost]

RECURSIVE CumulativeAt_Strict(_, _, _)
CumulativeAt_Strict(txs, t, k) ==
    IF k = 0 THEN [qtyAtTime |-> 0, costAtTime |-> 0]
    ELSE LET acc == CumulativeAt_Strict(txs, t, k - 1)
         IN IF TimeLt(GetTime(txs[k].date), t)
            THEN [qtyAtTime |-> acc.qtyAtTime + txs[k].quantity,
                  costAtTime |-> acc.costAtTime + txs[k].totalCost]
            ELSE acc

(* asset.transactions.forEach(...) over the first k transactions: the      *)
(* values of qtyAtTime and costAtTime after it                             *)
RECURSIVE CumulativeAt(_, _, _)
CumulativeAt(txs, t, k) ==
    IF k = 0 THEN [qtyAtTime |-> 0, costAtTime |-> 0]
    ELSE LET acc == CumulativeAt(txs, t, k - 1)
         IN IF TimeLe(GetTime(txs[k].date), t)
            THEN [qtyAtTime |-> acc.qtyAtTime + txs[k].quantity,
                  costAtTime |-> acc.costAtTime + txs[k].totalCost]
            ELSE acc

----------------------------------------------------------------------------
(* 3.B Price at time t (lines 149-197); t is an integer here, because the  *)
(* price is estimated only when some transaction time is <= t.             *)

(* assetHistory.findIndex(p => p[0] >= t): 0-based, -1 when none *)
RECURSIVE FindIndexFrom(_, _, _)
FindIndexFrom(hist, t, k) ==
    IF k > Len(hist) THEN -1
    ELSE IF hist[k][1] >= t THEN k - 1
    ELSE FindIndexFrom(hist, t, k + 1)

RECURSIVE FindIndexFrom_Strict(_, _, _)
FindIndexFrom_Strict(hist, t, k) ==
    IF k > Len(hist) THEN -1
    ELSE IF hist[k][1] > t THEN k - 1
    ELSE FindIndexFrom_Strict(hist, t, k + 1)

FindIndex_Strict(hist, t) == FindIndexFrom_Strict(hist, t, 1)

FindIndex_PastEnd(hist, t) ==
    LET idx == FindIndexFrom(hist, t, 1) IN IF idx = -1 THEN Len(hist) ELSE idx

FindIndex(hist, t) == FindIndexFrom(hist, t, 1)

HistoryPrice_NoLeftClamp(hist, t) ==
    LET idx == FindIndex(hist, t)
    IN IF idx = 0 \/ idx = -1 THEN Money(hist[Len(hist)][2])
       ELSE LET p1 == hist[idx]
                p2 == hist[idx + 1]
            IN IF p2[1] - p1[1] > 0
               THEN Interpolate(p1[1], p1[2], p2[1], p2[2], t)
               ELSE Money(p1[2])

HistoryPrice_NoRightClamp(hist, t) ==
    LET idx == FindIndex(hist, t)
    IN IF idx = 0 \/ idx = -1 THEN Money(hist[1][2])
       ELSE LET p1 == hist[idx]
                p2 == hist[idx + 1]
            IN IF p2[1] - p1[1] > 0
               THEN Interpolate(p1[1], p1[2], p2[1], p2[2], t)
               ELSE Money(p1[2])

(* STRATEGY 1: REAL HISTORY (lines 153-172); hist[idx + 1] is the source's *)
(* assetHistory[idx], sequences being 1-based.                             *)
HistoryPrice(hist, t) ==
    LET idx == FindIndex(hist, t)
    IN IF idx = 0 THEN Money(hist[1][2])
       ELSE IF idx = -1 THEN Money(hist[Len(hist)][2])
       ELSE LET p1 == hist[idx]
                p2 == hist[idx + 1]
            IN IF p2[1] - p1[1] > 0
               THEN Interpolate(p1[1], p1[2], p2[1], p2[2], t)
               ELSE Money(p1[2])

(* the for loop of lines 181-194: the first k that brackets t *)
RECURSIVE AnchorScan(_, _, _, _)
AnchorScan(anchors, cur, t, k) ==
    IF k > Len(anchors) - 1 THEN Money(cur)
    ELSE IF t >= anchors[k].time /\ t <= anchors[k + 1].time
    THEN IF anchors[k + 1].time - anchors[k].time > 0
         THEN Interpolate(anchors[k].time, anchors[k].price,
                          anchors[k + 1].time, anchors[k + 1].price, t)
         ELSE Money(anchors[k].price)
    ELSE AnchorScan(anchors, cur, t, k + 1)

AnchorPrice_Step(anchors, cur, t) ==
    IF Len(anchors) = 0 THEN Money(cur)
    ELSE IF t <= anchors[1].time THEN Money(anchors[1].price)
    ELSE IF t >= anchors[Len(anchors)].time
    THEN Money(anchors[Len(anchors)].price)
    ELSE LET k == CHOOSE j \in 1..(Len(anchors) - 1) :
                      t >= anchors[j].time /\ t < anchors[j + 1].time
         IN Money(anchors[k].price)

(* STRATEGY 2: ANCHOR FALLBACK (lines 176-196) *)
AnchorPrice(anchors, cur, t) ==
    IF Len(anchors) = 0 THEN Money(cur)
    ELSE IF t <= anchors[1].time THEN Money(anchors[1].price)
    ELSE IF t >= anchors[Len(anchors)].time
    THEN Money(anchors[Len(anchors)].price)
    ELSE AnchorScan(anchors, cur, t, 1)

EstimatedPrice(asset, anchors, t) ==
    IF HasHistory(asset) THEN HistoryPrice(asset.priceHistory, t)
    ELSE AnchorPrice(anchors, asset.currentPrice, t)

----------------------------------------------------------------------------
(* 3. Generate Time Steps (lines 118-211) *)

NotOwned_Negative(qty) == qty < 0

(* if (qtyAtTime <= 0) { stack[asset.id] = 0; return; }  (line 143) *)
NotOwned(qty) == qty <= 0

(* The element reads of lines 154-196 that would throw a TypeError, the    *)
(* element read being undefined: p1 = assetHistory[idx-1] and              *)
(* p2 = assetHistory[idx] of lines 162-164 (the reads of lines 156 and 159 *)
(* are of a non-empty history), and anchors[0], anchors[length - 1] of     *)
(* lines 178-179 behind the guard anchors.length > 0 of line 177.          *)
ReadsUndefined(asset, anchors, t) ==
    IF HasHistory(asset)
    THEN LET idx == FindIndex(asset.priceHistory, t)
         IN /\ idx # 0
            /\ idx # -1
            /\ ~(idx \in DOMAIN asset.priceHistory
                  /\ idx + 1 \in DOMAIN asset.priceHistory)
    ELSE /\ Len(anchors) > 0
         /\ ~(1 \in DOMAIN anchors /\ Len(anchors) \in DOMAIN anchors)

(* One pass of the assets.forEach body of lines 129-203 for one asset:     *)
(* its locals, and val (0 on the early return).                            *)
AssetAt(asset, anchors, t) ==
    LET acc == CumulativeAt(asset.transactions, t, Len(asset.transactions))
        qty == acc.qtyAtTime
        cost == acc.costAtTime
    IN IF NotOwned(qty)
       THEN [qtyAtTime |-> qty, costAtTime |-> cost, priced |-> FALSE,
             estimatedPrice |-> 0, val |-> 0, raised |-> FALSE]
       ELSE IF ReadsUndefined(asset, anchors, t.v)
       THEN [qtyAtTime |-> qty, costAtTime |-> cost, priced |-> FALSE,
             estimatedPrice |-> 0, val |-> 0, raised |-> TRUE]
       ELSE LET price == EstimatedPrice(asset, anchors, t.v)
            IN [qtyAtTime |-> qty, costAtTime |-> cost, priced |-> TRUE,
                estimatedPrice |-> price, val |-> qty * price, raised |-> FALSE]

(* assets.forEach at time t: the locals of every asset, in list order *)
RECURSIVE CalcAll(_, _, _, _)
CalcAll(as, anchors, t, k) ==
    IF k = 0 THEN <<>>
    ELSE Append(CalcAll(as, anchors, t, k - 1), AssetAt(as[k], anchors[k], t))

RECURSIVE TotalVal(_, _)
TotalVal(calc, k) ==
    IF k = 0 THEN 0
    ELSE IF calc[k].priced THEN TotalVal(calc, k - 1) + calc[k].val
    ELSE TotalVal(calc, k - 1)

RECURSIVE TotalCost(_, _)
TotalCost(calc, k) ==
    IF k = 0 THEN 0
    ELSE IF calc[k].priced THEN TotalCost(calc, k - 1) + calc[k].costAtTime
    ELSE TotalCost(calc, k - 1)

(* stack[asset.id] = ... in list order: a later write to the same key      *)
(* replaces an earlier one                                                 *)
RECURSIVE StackOf(_, _, _)
StackOf(as, calc, k) ==
    IF k = 0 THEN <<>>
    ELSE (as[k].id :> calc[k].val) @@ StackOf(as, calc, k - 1)

(* const t = minTime + (stepSize * i), stepSize = (maxTime - minTime) / steps *)
StepTime(lo, hi, i) ==
    NumAdd(lo, NumMulInt(NumDivInt(NumSub(hi, lo), Steps), i))

(* the body of the for loop of lines 122-211 at time t *)
PointAt(as, anchors, t) ==
    LET calc == CalcAll(as, anchors, t, Len(as))
    IN [point |-> [timestamp |-> t,
                   costBasis |-> TotalCost(calc, Len(as)),
                   marketValue |-> TotalVal(calc, Len(as)),
                   stack |-> StackOf(as, calc, Len(as))],
        calc |-> calc]

RECURSIVE AnchorsAll(_, _, _)
AnchorsAll(as, n, k) ==
    IF k = 0 THEN <<>>
    ELSE Append(AnchorsAll(as, n, k - 1),
                IF HasHistory(as[k]) THEN <<>> ELSE PriceAnchors(as[k], n))

(* a sequence given by a rule, computed once, element by element *)
Eager(s) == IF Len(s) >= 0 THEN s ELSE <<>>

(* for (let i = 0; i <= steps; i++) { ... generatedData.push(...) }: the   *)
(* points of steps 0..steps with the locals behind them                    *)
Generate(as, lo, hi, n) ==
    LET anchors == AnchorsAll(as, n, Len(as))
    IN Eager([i \in 1..(Steps + 1) |->
                 PointAt(as, anchors, StepTime(lo, hi, i - 1))])

----------------------------------------------------------------------------
(* 4. Create Stacked Paths (lines 229-275) *)

(* .reverse() *)
Reverse(s) == [i \in 1..Len(s) |-> s[Len(s) + 1 - i]]

HasValue_Always(data, id) == TRUE

(* generatedData.some(d => (d.stack[asset.id] || 0) > 0) *)
HasValue(data, id) == \E i \in 1..Len(data) : data[i].stack[id] > 0

TopPoints_NoBaseline(data, id, baselines) ==
    Eager([i \in 1..Len(data) |-> data[i].stack[id]])

(* yTop = currentBaselines[i] + val *)
TopPoints(data, id, baselines) ==
    Eager([i \in 1..Len(data) |-> baselines[i] + data[i].stack[id]])

NextBaselines_Keep(baselines, topPoints) == baselines

(* topPoints.forEach((p, i) => { currentBaselines[i] = p.val; }) *)
NextBaselines(baselines, topPoints) == topPoints

RECURSIVE StackFrom(_, _, _, _)
StackFrom(as, data, k, baselines) ==
    IF k > Len(as) THEN <<>>
    ELSE IF ~HasValue(data, as[k].id) THEN StackFrom(as, data, k + 1, baselines)
    ELSE LET top == TopPoints(data, as[k].id, baselines)
             region == [id |-> as[k].id,
                        topPoints |-> top,
                        bottomPoints |-> Reverse(baselines)]
         IN (IF Len(data) > 1 THEN <<region>> ELSE <<>>)
            \o StackFrom(as, data, k + 1, NextBaselines(baselines, top))

(* new Array(n).fill(0) *)
Zeros(n) == [i \in 1..n |-> 0]

StackedPaths(as, data) == StackFrom(as, data, 1, Zeros(Len(data)))

----------------------------------------------------------------------------
(* 4. Render SVG: the vertical scale and the cost basis line               *)
(* (lines 213-226, 277-279)                                                *)

Width == 100                 \* const width = 100
Height == 100                \* const height = 100
Placeholder == 100           \* if (computedMaxY === 0) computedMaxY = 100

Max2(a, b) == IF a > b THEN a ELSE b

(* generatedData.forEach(d => { if (d.marketValue > computedMaxY) ...;     *)
(* if (d.costBasis > computedMaxY) ... }) from computedMaxY = 0, over the  *)
(* points lo..hi                                                           *)
RECURSIVE MaxObserved(_, _, _)
MaxObserved(data, lo, hi) ==
    IF lo > hi THEN 0
    ELSE IF lo = hi THEN Max2(0, Max2(data[lo].marketValue, data[lo].costBasis))
    ELSE LET mid == (lo + hi) \div 2
         IN Max2(MaxObserved(data, lo, mid), MaxObserved(data, mid + 1, hi))

ComputedMaxY_NoPlaceholder(data) ==
    [mant |-> MaxObserved(data, 1, Len(data)), unit |-> 1, pad |-> <<11, 10>>]

(* computedMaxY of lines 217-223, the number mant * unit * 11 / 10 in      *)
(* money units, kept as its factors: the placeholder is 100 of the         *)
(* currency, an observed maximum is a number of money units.               *)
ComputedMaxY(data) ==
    LET m == MaxObserved(data, 1, Len(data))
    IN IF m = 0 THEN [mant |-> Placeholder, unit |-> MoneyScale, pad |-> <<11, 10>>]
       ELSE [mant |-> m, unit |-> 1, pad |-> <<11, 10>>]

(* getY(val) = height - ((val / computedMaxY) * height), the number        *)
(* height * (1 - val / of) kept as val and of; 0 / 0 is NaN, and a zero    *)
(* val over a non-zero maximum gives height exactly.                       *)
GetY(val, computedMaxY) ==
    IF computedMaxY.mant = 0 /\ val = 0
    THEN [nan |-> TRUE, val |-> 0, of |-> computedMaxY]
    ELSE [nan |-> FALSE, val |-> val, of |-> computedMaxY]

(* getX(ts) = ((ts - minTime) / (maxTime - minTime)) * width, the number   *)
(* width * num / den kept as num and den; NaN when an operand is NaN or    *)
(* the quotient is 0 / 0.                                                  *)
GetX(ts, lo, hi) ==
    IF ts.nan \/ lo.nan \/ hi.nan \/ (ts.v = lo.v /\ hi.v = lo.v)
    THEN [nan |-> TRUE, num |-> 0, den |-> 0]
    ELSE [nan |-> FALSE, num |-> ts.v - lo.v, den |-> hi.v - lo.v]

(* getX(d.timestamp) over generatedData *)
XCoords(data, lo, hi) ==
    Eager([i \in 1..Len(data) |-> GetX(data[i].timestamp, lo, hi)])

(* costPathPoints = generatedData.map(d => ... getY(d.costBasis) ...) *)
CostPath(data, computedMaxY) ==
    Eager([i \in 1..Len(data) |-> GetY(data[i].costBasis, computedMaxY)])

----------------------------------------------------------------------------
(* The asset as the computation leaves it: anchors is the fresh array of   *)
(* asset.transactions.map (line 97), so the push and the sort of lines     *)
(* 101-102 act on that array and not on the ledger.                        *)

AfterAnchors_InPlace(asset) ==
    IF HasHistory(asset) THEN asset
    ELSE LET txs == asset.transactions
             sorted == SortByTime([j \in 1..Len(txs) |->
                                     [time |-> txs[j].date, tx |-> txs[j]]])
         IN [asset EXCEPT !.transactions = [j \in 1..Len(txs) |-> sorted[j].tx]]

AfterAnchors(asset) == asset

AssetsAfter(as) == [k \in 1..Len(as) |-> AfterAnchors(as[k])]

----------------------------------------------------------------------------
(* The portfolios the component is rendered with *)

Day(d) == d * TicksPerDay

Tx(date, quantity, pricePerCoin) ==
    [date |-> date, quantity |-> quantity, pricePerCoin |-> pricePerCoin,
     totalCost |-> quantity * pricePerCoin]

AssetPool ==
    << [id |-> "a1", currentPrice |-> 3, priceHistory |-> <<>>,
        transactions |-> <<Tx(2, 1, 2), Tx(1, 2, 1)>>],
       [id |-> "a2", currentPrice |-> 1, priceHistory |-> <<>>,
        transactions |-> <<Tx(4, 1, 2), Tx(4, 1, 3)>>],
       [id |-> "a3", currentPrice |-> 2,
        priceHistory |-> << <<Day(1), 1>>, <<Day(2), 3>>, <<Day(2), 2>> >>,
        transactions |-> <<Tx(0, 1, 1)>>],
       [id |-> "a4", currentPrice |-> 1,
        priceHistory |-> << <<Day(0), 2>> >>,
        transactions |-> <<Tx(-1, 1, 2), Tx(-1, 1, 1)>>],
       [id |-> "a5", currentPrice |-> 1, priceHistory |-> <<>>,
        transactions |-> <<>>],
       [id |-> "a6", currentPrice |-> 1, priceHistory |-> <<>>,
        transactions |-> <<Tx(1, 1, 2), Tx(2, -1, 1)>>] >>

RECURSIVE Pick(_, _)
Pick(S, k) ==
    IF k > Len(AssetPool) THEN <<>>
    ELSE IF k \in S THEN <<AssetPool[k]>> \o Pick(S, k + 1)
    ELSE Pick(S, k + 1)

AssetLists ==
    {Pick(S, 1) : S \in {a..b : a \in 1..Len(AssetPool), b \in 0..Len(AssetPool)} \cap
                          {T \in SUBSET (1..Len(AssetPool)) : Cardinality(T) <= MaxAssets}}

CustomStarts == {EmptyStr, Unparseable, DateStr(2)}
CustomEnds == {EmptyStr, Unparseable, DateStr(1)}

----------------------------------------------------------------------------
(* The useMemo of lines 54-316, run with Date.now() = n *)

(* the computation threw: nothing is returned *)
Thrown(as, w) ==
    [assets |-> AssetsAfter(as), minTime |-> w.minTime, maxTime |-> w.maxTime,
     chartData |-> <<>>, locals |-> <<>>, stackedPaths |-> <<>>,
     maxY |-> ComputedMaxY(<<>>), costPath |-> <<>>, xCoords |-> <<>>,
     raised |-> TRUE]

Memo(as, tr, cs, ce, n) ==
    LET w == ResolveWindow(as, tr, cs, ce, n)
        gen == Generate(as, w.minTime, w.maxTime, n)
        data == Eager([i \in 1..Len(gen) |-> gen[i].point])
        computedMaxY == ComputedMaxY(data)
    IN IF \E i \in 1..Len(gen) : \E k \in 1..Len(as) : gen[i].calc[k].raised
       THEN Thrown(as, w)
       ELSE [assets |-> AssetsAfter(as),
             minTime |-> w.minTime, maxTime |-> w.maxTime,
             chartData |-> data,
             locals |-> [i \in 1..Len(gen) |-> gen[i].calc],
             stackedPaths |-> StackedPaths(as, data),
             maxY |-> computedMaxY,
             costPath |-> CostPath(data, computedMaxY),
             xCoords |-> XCoords(data, w.minTime, w.maxTime),
             raised |-> FALSE]

Recompute(as, tr, cs, ce, n) ==
    \E m \in {Memo(as, tr, cs, ce, n)} :
        /\ now' = n
        /\ assets' = m.assets
        /\ minTime' = m.minTime
        /\ maxTime' = m.maxTime
        /\ chartData' = m.chartData
        /\ locals' = m.locals
        /\ stackedPaths' = m.stackedPaths
        /\ maxY' = m.maxY
        /\ costPath' = m.costPath
        /\ xCoords' = m.xCoords
        /\ raised' = m.raised

(* useState(null) of line 29; no pointer event was handled yet *)
NoHover == [set |-> FALSE]
NoPointer == [moved |-> FALSE]

Init ==
    /\ assets \in AssetLists
    /\ timeRange = "ALL"
    /\ customStart = EmptyStr
    /\ customEnd = EmptyStr
    /\ clock = GetTime(StartClock)
    /\ now = clock
    /\ \E m \in {Memo(assets, timeRange, customStart, customEnd, clock)} :
        /\ minTime = m.minTime
        /\ maxTime = m.maxTime
        /\ chartData = m.chartData
        /\ locals = m.locals
        /\ stackedPaths = m.stackedPaths
        /\ maxY = m.maxY
        /\ costPath = m.costPath
        /\ xCoords = m.xCoords
        /\ raised = m.raised
    /\ hoverData = NoHover
    /\ pointer = NoPointer
    /\ isLoading = FALSE
    /\ inflight = {}
    /\ issued = 0
    /\ history = <<>>
    /\ calls = 0
    /\ idle = 0
    /\ recorded = <<>>

(* onClick={() => setTimeRange(range)}  (line 457) *)
SetTimeRange(range) ==
    /\ range # timeRange
    /\ timeRange' = range
    /\ Recompute(assets, range, customStart, customEnd, clock)
    /\ UNCHANGED <<customStart, customEnd, clock>>
    /\ UNCHANGED <<appVars, hoverVars, historyVars>>

(* onChange={e => setCustomStart(e.target.value)}  (line 448); the input   *)
(* is rendered only while timeRange is CUSTOM (line 446)                   *)
SetCustomStart(value) ==
    /\ timeRange = "CUSTOM"
    /\ value # customStart
    /\ customStart' = value
    /\ Recompute(assets, timeRange, value, customEnd, clock)
    /\ UNCHANGED <<timeRange, customEnd, clock>>
    /\ UNCHANGED <<appVars, hoverVars, historyVars>>

(* onChange={e => setCustomEnd(e.target.value)}  (line 450) *)
SetCustomEnd(value) ==
    /\ timeRange = "CUSTOM"
    /\ value # customEnd
    /\ customEnd' = value
    /\ Recompute(assets, timeRange, customStart, value, clock)
    /\ UNCHANGED <<timeRange, customStart, clock>>
    /\ UNCHANGED <<appVars, hoverVars, historyVars>>

(* time passes; the memo is not recomputed, its dependencies being         *)
(* [assets, timeRange, customStart, customEnd]  (line 316)                 *)
Tick ==
    /\ clock < GetTime(MaxClock)
    /\ clock' = clock + DayMs
    /\ UNCHANGED <<assets, timeRange, customStart, customEnd, now,
                   minTime, maxTime, chartData, locals, stackedPaths,
                   maxY, costPath, xCoords, raised>>
    /\ UNCHANGED <<appVars, hoverVars, historyVars>>

----------------------------------------------------------------------------
(* Hover Logic (lines 319-348).  x = clientX - rect.left and width =        *)
(* rect.width are whole pixels; ratio is the fraction num / den.           *)

PointerXs == {-1, 0, 1, 2, 4, 5}
PointerWidths == {0, 4}

HoverRatio_Unclamped(x, width) == [num |-> x, den |-> width]

(* Math.max(0, Math.min(1, x / width)), width > 0 *)
HoverRatio(x, width) ==
    IF x <= 0 THEN [num |-> 0, den |-> 1]
    ELSE IF x >= width THEN [num |-> 1, den |-> 1]
    ELSE [num |-> x, den |-> width]

(* Math.floor(ratio * (chartData.length - 1)) *)
HoverIndex(ratio, length) == (ratio.num * (length - 1)) \div ratio.den

(* handleMouseMove (lines 319-346); chartData[index] is chartData[index+1] *)
(* here, and undefined when index is no index of the array                 *)
HandleMouseMove(x, width) ==
    /\ Len(chartData) # 0
    /\ width # 0
    /\ LET ratio == HoverRatio(x, width)
           index == HoverIndex(ratio, Len(chartData))
           defined == index + 1 \in DOMAIN chartData
       IN /\ pointer' = [moved |-> TRUE, x |-> x, width |-> width,
                         ratio |-> ratio, index |-> index, defined |-> defined]
          /\ hoverData' = IF defined
                          THEN [set |-> TRUE, x |-> x,
                                y |-> [val |-> chartData[index + 1].marketValue,
                                       of |-> maxY],
                                data |-> chartData[index + 1]]
                          ELSE hoverData
    /\ UNCHANGED <<assets, timeRange, customStart, customEnd, clock, now,
                   minTime, maxTime, chartData, locals, stackedPaths,
                   maxY, costPath, xCoords, raised, appVars, historyVars>>

(* handleMouseLeave (line 348) *)
HandleMouseLeave ==
    /\ hoverData' = NoHover
    /\ UNCHANGED <<assets, timeRange, customStart, customEnd, clock, now,
                   minTime, maxTime, chartData, locals, stackedPaths,
                   maxY, costPath, xCoords, raised, pointer, appVars, historyVars>>

(* The component as rendered with any selector and custom bounds, and the  *)
(* pointer moving over its chart                                           *)
HoverInit ==
    /\ assets \in AssetLists
    /\ timeRange \in TimeRanges
    /\ customStart \in CustomStarts
    /\ customEnd \in CustomEnds
    /\ clock = GetTime(StartClock)
    /\ now = clock
    /\ \E m \in {Memo(assets, timeRange, customStart, customEnd, clock)} :
        /\ minTime = m.minTime
        /\ maxTime = m.maxTime
        /\ chartData = m.chartData
        /\ locals = m.locals
        /\ stackedPaths = m.stackedPaths
        /\ maxY = m.maxY
        /\ costPath = m.costPath
        /\ xCoords = m.xCoords
        /\ raised = m.raised
    /\ hoverData = NoHover
    /\ pointer = NoPointer
    /\ isLoading = FALSE
    /\ inflight = {}
    /\ issued = 0
    /\ history = <<>>
    /\ calls = 0
    /\ idle = 0
    /\ recorded = <<>>

HoverNext ==
    \/ \E x \in PointerXs : \E width \in PointerWidths : HandleMouseMove(x, width)
    \/ HandleMouseLeave

HoverSpec == HoverInit /\ [][HoverNext]_vars

Next ==
    \/ \E range \in TimeRanges : SetTimeRange(range)
    \/ \E value \in CustomStarts : SetCustomStart(value)
    \/ \E value \in CustomEnds : SetCustomEnd(value)
    \/ Tick

Spec == Init /\ [][Next]_vars

----------------------------------------------------------------------------
(* App.tsx: the portfolio and its handlers.  An asset carries the fields   *)
(* the handlers read or write: priceHistory as whether one is held, error  *)
(* as whether one is set; sources and lastUpdated are left out.            *)

Tickers == {"BTC", "ETH"}
Purchases == {[quantity |-> 1, pricePerCoin |-> 2], [quantity |-> 2, pricePerCoin |-> 3]}
FetchedPrice == 5            \* result.price of fetchCryptoPrice

(* newTx of handleAddAsset (lines 82-92) *)
NewTx(n, quantity, pricePerCoin) ==
    [id |-> n, type |-> "BUY", quantity |-> quantity, pricePerCoin |-> pricePerCoin,
     date |-> "date", totalCost |-> quantity * pricePerCoin]

(* assets.find(a => a.ticker === ticker): its index, 0 when undefined *)
FindTicker(as, ticker) ==
    IF \E k \in 1..Len(as) : as[k].ticker = ticker
    THEN CHOOSE k \in 1..Len(as) :
            as[k].ticker = ticker /\ \A j \in 1..(k - 1) : as[j].ticker # ticker
    ELSE 0

HasId(as, id) == \E k \in 1..Len(as) : as[k].id = id

(* assets.find(a => a.id === id) of an id that is held *)
FindId(as, id) ==
    as[CHOOSE k \in 1..Len(as) :
           as[k].id = id /\ \A j \in 1..(k - 1) : as[j].id # id]

(* the elements of an array *)
Items(as) == {as[k] : k \in 1..Len(as)}

(* prev.map(a => a.id === id ? f(a) : a), f given on the elements of prev *)
MapId(as, id, f) ==
    [k \in 1..Len(as) |-> IF as[k].id = id THEN f[as[k]] ELSE as[k]]

(* prev.filter(a => a.id !== id) *)
RECURSIVE FilterOut(_, _)
FilterOut(as, id) ==
    IF Len(as) = 0 THEN <<>>
    ELSE IF as[1].id = id THEN FilterOut(Tail(as), id)
    ELSE <<as[1]>> \o FilterOut(Tail(as), id)

AddToExisting_StaleQuantity(a, existingAsset, newTx) ==
    [a EXCEPT !.transactions = Append(existingAsset.transactions, newTx),
              !.totalCostBasis = existingAsset.totalCostBasis + newTx.totalCost,
              !.avgBuyPrice = <<existingAsset.totalCostBasis + newTx.totalCost,
                                existingAsset.quantity + newTx.quantity>>]

(* the object of lines 106-112, from existingAsset of the handler's        *)
(* closure; avgBuyPrice is the quotient of the pair                        *)
AddToExisting(a, existingAsset, newTx) ==
    [a EXCEPT !.quantity = existingAsset.quantity + newTx.quantity,
              !.transactions = Append(existingAsset.transactions, newTx),
              !.totalCostBasis = existingAsset.totalCostBasis + newTx.totalCost,
              !.avgBuyPrice = <<existingAsset.totalCostBasis + newTx.totalCost,
                                existingAsset.quantity + newTx.quantity>>]

(* tempAsset (lines 116-129) *)
TempAsset(newId, ticker, newTx) ==
    [id |-> newId, ticker |-> ticker, quantity |-> newTx.quantity,
     currentPrice |-> 0, isUpdating |-> TRUE, error |-> FALSE,
     priceHistory |-> FALSE, transactions |-> <<newTx>>,
     avgBuyPrice |-> <<newTx.pricePerCoin, 1>>, totalCostBasis |-> newTx.totalCost]

(* { ...a, isUpdating: true, error: undefined } *)
MarkUpdating(a) == [a EXCEPT !.isUpdating = TRUE, !.error = FALSE]

MarkFailed_StillUpdating(a) == [a EXCEPT !.error = TRUE]

(* { ...a, isUpdating: false, error: message } *)
MarkFailed(a) == [a EXCEPT !.isUpdating = FALSE, !.error = TRUE]

(* { ...a, currentPrice: result.price, ..., isUpdating: false } *)
Priced_(a) == [a EXCEPT !.currentPrice = FetchedPrice, !.isUpdating = FALSE]

(* { ...a, currentPrice: result.price, ...,                                *)
(*   priceHistory: historyData || a.priceHistory, isUpdating: false }      *)
Refreshed(a, historyData) ==
    [a EXCEPT !.currentPrice = FetchedPrice,
              !.priceHistory = historyData \/ a.priceHistory,
              !.isUpdating = FALSE]

CanSuspend == Cardinality(inflight) < MaxInflight

----------------------------------------------------------------------------
(* recordHistorySnapshot (lines 57-77), called with the asset list of a    *)
(* finished refresh (lines 224, 274).  Date.now() is the number of the     *)
(* call.  The handlers below leave the history aside: it is followed in    *)
(* HistorySpec, where the function is called with any of HistoryInputs.    *)

HistoryLimit == 50           \* if (newHistory.length > 50)
MaxCalls == 52               \* calls of recordHistorySnapshot in a behaviour
MaxIdle == 1                 \* of which with a total value of 0

HistoryInputs ==
    { <<[ticker |-> "BTC", quantity |-> 1, currentPrice |-> 0]>>,
      <<[ticker |-> "BTC", quantity |-> 1, currentPrice |-> 5],
        [ticker |-> "ETH", quantity |-> 2, currentPrice |-> 5]>> }

(* currentAssets.reduce((sum, a) => sum + (a.quantity * a.currentPrice), 0) *)
RECURSIVE TotalValue(_, _)
TotalValue(currentAssets, k) ==
    IF k = 0 THEN 0
    ELSE TotalValue(currentAssets, k - 1)
            + currentAssets[k].quantity * currentAssets[k].currentPrice

(* assetValues: { ...acc, [a.ticker]: a.quantity * a.currentPrice } *)
RECURSIVE AssetValues(_, _)
AssetValues(currentAssets, k) ==
    IF k = 0 THEN <<>>
    ELSE (currentAssets[k].ticker
             :> currentAssets[k].quantity * currentAssets[k].currentPrice)
         @@ AssetValues(currentAssets, k - 1)

(* snapshot (lines 62-69) *)
Snapshot(timestamp, currentAssets) ==
    [timestamp |-> timestamp,
     totalValue |-> TotalValue(currentAssets, Len(currentAssets)),
     assetValues |-> AssetValues(currentAssets, Len(currentAssets))]

NewHistory_KeepOldest(prev, snapshot) ==
    LET newHistory == Append(prev, snapshot)
    IN IF Len(newHistory) > HistoryLimit
       THEN SubSeq(newHistory, 1, HistoryLimit)
       ELSE newHistory

(* the updater of setHistory (lines 71-76) *)
NewHistory(prev, snapshot) ==
    LET newHistory == Append(prev, snapshot)
    IN IF Len(newHistory) > HistoryLimit
       THEN SubSeq(newHistory, Len(newHistory) - HistoryLimit + 1, Len(newHistory))
       ELSE newHistory

RecordHistorySnapshot(currentAssets) ==
    /\ calls < MaxCalls
    /\ calls' = calls + 1
    /\ IF TotalValue(currentAssets, Len(currentAssets)) = 0
       THEN /\ idle < MaxIdle
            /\ idle' = idle + 1
            /\ UNCHANGED <<history, recorded>>
       ELSE \E snapshot \in {Snapshot(calls + 1, currentAssets)} :
               /\ history' = NewHistory(history, snapshot)
               /\ recorded' = Append(recorded, snapshot)
               /\ UNCHANGED idle
    /\ UNCHANGED <<assets, appVars, summaryVars>>

HistoryNext == \E currentAssets \in HistoryInputs : RecordHistorySnapshot(currentAssets)

(* handleAddAsset (lines 81-167) up to its first await *)
HandleAddAsset(ticker, purchase) ==
    /\ issued < MaxAdds
    /\ issued' = issued + 1
    /\ LET newTx == NewTx(issued + 1, purchase.quantity, purchase.pricePerCoin)
           found == FindTicker(assets, ticker)
       IN IF found # 0
          THEN /\ assets' = MapId(assets, assets[found].id,
                                  [a \in Items(assets) |-> AddToExisting(a, assets[found], newTx)])
               /\ UNCHANGED inflight
          ELSE /\ CanSuspend
               /\ assets' = Append(assets, TempAsset(issued + 1, ticker, newTx))
               /\ inflight' = inflight \cup {[kind |-> "addPrice", id |-> issued + 1]}
    /\ UNCHANGED <<isLoading, summaryVars, historyVars>>

(* await fetchCryptoPrice(ticker) of line 135 resolves: lines 137-159 *)
AddPriceResolved(task) ==
    /\ task.kind = "addPrice"
    /\ assets' = MapId(assets, task.id, [a \in Items(assets) |-> Priced_(a)])
    /\ inflight' = (inflight \ {task}) \cup {[kind |-> "addHistory", id |-> task.id]}
    /\ UNCHANGED <<isLoading, issued, summaryVars, historyVars>>

(* await fetchCryptoPrice(ticker) of line 135 rejects: lines 161-165 *)
AddPriceRejected(task) ==
    /\ task.kind = "addPrice"
    /\ assets' = MapId(assets, task.id, [a \in Items(assets) |-> MarkFailed(a)])
    /\ inflight' = inflight \ {task}
    /\ UNCHANGED <<isLoading, issued, summaryVars, historyVars>>

(* fetchAssetHistory(ticker).then(historyData => ...) of lines 153-159 *)
AddHistoryResolved(task, historyData) ==
    /\ task.kind = "addHistory"
    /\ assets' = IF historyData
                 THEN MapId(assets, task.id, [a \in Items(assets) |-> [a EXCEPT !.priceHistory = TRUE]])
                 ELSE assets
    /\ inflight' = inflight \ {task}
    /\ UNCHANGED <<isLoading, issued, summaryVars, historyVars>>

(* handleRemoveAsset (lines 169-171) *)
HandleRemoveAsset(id) ==
    /\ HasId(assets, id)
    /\ assets' = FilterOut(assets, id)
    /\ UNCHANGED <<appVars, summaryVars, historyVars>>

(* handleRetryHistory (lines 173-193) up to its await *)
HandleRetryHistory(id) ==
    /\ HasId(assets, id)
    /\ CanSuspend
    /\ assets' = MapId(assets, id, [a \in Items(assets) |-> MarkUpdating(a)])
    /\ inflight' = inflight \cup {[kind |-> "retry", id |-> id]}
    /\ UNCHANGED <<isLoading, issued, summaryVars, historyVars>>

(* await fetchAssetHistory of line 181 resolves with a history, with none, *)
(* or rejects: lines 182-192                                               *)
RetryDone(task, outcome) ==
    /\ task.kind = "retry"
    /\ assets' = IF outcome = "history"
                 THEN MapId(assets, task.id,
                            [a \in Items(assets) |->
                               [a EXCEPT !.priceHistory = TRUE,
                                         !.isUpdating = FALSE, !.error = FALSE]])
                 ELSE MapId(assets, task.id, [a \in Items(assets) |-> MarkFailed(a)])
    /\ inflight' = inflight \ {task}
    /\ UNCHANGED <<isLoading, issued, summaryVars, historyVars>>

(* handleRefreshAsset (lines 195-230) up to its first await; asset is the  *)
(* one of the handler's closure                                            *)
HandleRefreshAsset(id) ==
    /\ HasId(assets, id)
    /\ CanSuspend
    /\ assets' = MapId(assets, id, [a \in Items(assets) |-> MarkUpdating(a)])
    /\ inflight' = inflight \cup
          {[kind |-> "refresh", id |-> id, phase |-> "price",
            priceHistory |-> FindId(assets, id).priceHistory]}
    /\ UNCHANGED <<isLoading, issued, summaryVars, historyVars>>

(* await fetchCryptoPrice of line 202 resolves: the history is fetched     *)
(* when the closure's asset has none (lines 205-208), else lines 210-226   *)
RefreshPriceResolved(task) ==
    /\ task.kind = "refresh"
    /\ task.phase = "price"
    /\ IF task.priceHistory
       THEN /\ assets' = MapId(assets, task.id, [a \in Items(assets) |-> Refreshed(a, TRUE)])
            /\ inflight' = inflight \ {task}
       ELSE /\ assets' = assets
            /\ inflight' = (inflight \ {task}) \cup {[task EXCEPT !.phase = "history"]}
    /\ UNCHANGED <<isLoading, issued, summaryVars, historyVars>>

(* await fetchAssetHistory of line 207 resolves: lines 210-226 *)
RefreshHistoryResolved(task, historyData) ==
    /\ task.kind = "refresh"
    /\ task.phase = "history"
    /\ assets' = MapId(assets, task.id, [a \in Items(assets) |-> Refreshed(a, historyData)])
    /\ inflight' = inflight \ {task}
    /\ UNCHANGED <<isLoading, issued, summaryVars, historyVars>>

(* either await of handleRefreshAsset rejects: lines 227-229 *)
RefreshRejected(task) ==
    /\ task.kind = "refresh"
    /\ assets' = MapId(assets, task.id, [a \in Items(assets) |-> MarkFailed(a)])
    /\ inflight' = inflight \ {task}
    /\ UNCHANGED <<isLoading, issued, summaryVars, historyVars>>

(* handleRefreshAll (lines 232-276) up to its first await: assets is the   *)
(* list of the handler's closure, updatedAssets = [...assets] its copy     *)
HandleRefreshAll ==
    /\ ~isLoading
    /\ Len(assets) # 0
    /\ CanSuspend
    /\ isLoading' = TRUE
    /\ assets' = [k \in 1..Len(assets) |-> MarkUpdating(assets[k])]
    /\ inflight' = inflight \cup
          {[kind |-> "all", assets |-> assets, updatedAssets |-> assets,
            i |-> 1, phase |-> "price"]}
    /\ UNCHANGED <<issued, summaryVars, historyVars>>

(* the for loop goes on to its next asset, or ends: lines 242, 274-275 *)
AllContinue(task, updatedAssets) ==
    IF task.i < Len(task.assets)
    THEN /\ inflight' = (inflight \ {task}) \cup
                {[task EXCEPT !.updatedAssets = updatedAssets,
                              !.i = task.i + 1, !.phase = "price"]}
         /\ UNCHANGED isLoading
    ELSE /\ inflight' = inflight \ {task}
         /\ isLoading' = FALSE

(* updatedAssets[i] = {...}; setAssets([...updatedAssets]); then           *)
(* await delay(500)  (lines 255-267)                                       *)
AllWrite(task, historyData) ==
    LET updatedAssets ==
            [task.updatedAssets EXCEPT ![task.i] = Refreshed(@, historyData)]
    IN /\ assets' = updatedAssets
       /\ inflight' = (inflight \ {task}) \cup
              {[task EXCEPT !.updatedAssets = updatedAssets, !.phase = "delay"]}
       /\ UNCHANGED isLoading

(* await fetchCryptoPrice of line 245 resolves *)
AllPriceResolved(task) ==
    /\ task.kind = "all"
    /\ task.phase = "price"
    /\ IF task.assets[task.i].priceHistory
       THEN AllWrite(task, TRUE)
       ELSE /\ inflight' = (inflight \ {task}) \cup {[task EXCEPT !.phase = "history"]}
            /\ UNCHANGED <<assets, isLoading>>
    /\ UNCHANGED <<issued, summaryVars, historyVars>>

(* await fetchAssetHistory of line 251 resolves with a history or with     *)
(* none, or rejects, which line 252 ignores                                *)
AllHistoryResolved(task, historyData) ==
    /\ task.kind = "all"
    /\ task.phase = "history"
    /\ AllWrite(task, historyData)
    /\ UNCHANGED <<issued, summaryVars, historyVars>>

(* await fetchCryptoPrice of line 245 rejects: lines 268-271 *)
AllPriceRejected(task) ==
    /\ task.kind = "all"
    /\ task.phase = "price"
    /\ LET updatedAssets ==
               [task.updatedAssets EXCEPT ![task.i] = MarkFailed(@)]
       IN /\ assets' = updatedAssets
          /\ AllContinue(task, updatedAssets)
    /\ UNCHANGED <<issued, summaryVars, historyVars>>

(* await delay(500) of line 267 is over *)
AllDelayDone(task) ==
    /\ task.kind = "all"
    /\ task.phase = "delay"
    /\ AllContinue(task, task.updatedAssets)
    /\ UNCHANGED <<assets, issued, summaryVars, historyVars>>

(* App before any handler ran, with nothing saved (lines 11-21); the       *)
(* Summary state is that of its first render and is left alone             *)
AppInit ==
    /\ assets = <<>>
    /\ isLoading = FALSE
    /\ inflight = {}
    /\ issued = 0
    /\ history = <<>>
    /\ calls = 0
    /\ idle = 0
    /\ recorded = <<>>
    /\ timeRange = "ALL"
    /\ customStart = EmptyStr
    /\ customEnd = EmptyStr
    /\ clock = GetTime(StartClock)
    /\ now = clock
    /\ \E m \in {Memo(assets, timeRange, customStart, customEnd, clock)} :
        /\ minTime = m.minTime
        /\ maxTime = m.maxTime
        /\ chartData = m.chartData
        /\ locals = m.locals
        /\ stackedPaths = m.stackedPaths
        /\ maxY = m.maxY
        /\ costPath = m.costPath
        /\ xCoords = m.xCoords
        /\ raised = m.raised
    /\ hoverData = NoHover
    /\ pointer = NoPointer

HistorySpec == AppInit /\ [][HistoryNext]_vars

AppNext ==
    \/ \E ticker \in Tickers : \E purchase \in Purchases : HandleAddAsset(ticker, purchase)
    \/ \E id \in 1..MaxAdds : HandleRemoveAsset(id)
    \/ \E id \in 1..MaxAdds : HandleRetryHistory(id)
    \/ \E id \in 1..MaxAdds : HandleRefreshAsset(id)
    \/ HandleRefreshAll
    \/ \E task \in inflight : AddPriceResolved(task)
    \/ \E task \in inflight : AddPriceRejected(task)
    \/ \E task \in inflight : \E historyData \in BOOLEAN : AddHistoryResolved(task, historyData)
    \/ \E task \in inflight : \E outcome \in {"history", "none", "rejected"} : RetryDone(task, outcome)
    \/ \E task \in inflight : RefreshPriceResolved(task)
    \/ \E task \in inflight : \E historyData \in BOOLEAN : RefreshHistoryResolved(task, historyData)
    \/ \E task \in inflight : RefreshRejected(task)
    \/ \E task \in inflight : AllPriceResolved(task)
    \/ \E task \in inflight : \E historyData \in BOOLEAN : AllHistoryResolved(task, historyData)
    \/ \E task \in inflight : AllPriceRejected(task)
    \/ \E task \in inflight : AllDelayDone(task)

AppSpec == AppInit /\ [][AppNext]_vars

(* A suspended handler goes on: the promise it awaits settles (a fetch     *)
(* resolves or rejects, a delay ends) and its continuation runs.           *)
Settles(task) ==
    \/ AddPriceResolved(task)
    \/ AddPriceRejected(task)
    \/ \E historyData \in BOOLEAN : AddHistoryResolved(task, historyData)
    \/ \E outcome \in {"history", "none", "rejected"} : RetryDone(task, outcome)
    \/ RefreshPriceResolved(task)
    \/ \E historyData \in BOOLEAN : RefreshHistoryResolved(task, historyData)
    \/ RefreshRejected(task)
    \/ AllPriceResolved(task)
    \/ \E historyData \in BOOLEAN : AllHistoryResolved(task, historyData)
    \/ AllPriceRejected(task)
    \/ AllDelayDone(task)

(* the await a suspended handler is at *)
AwaitOf(task) ==
    IF task.kind \in {"refresh", "all"} THEN <<task.kind, task.phase>>
    ELSE <<task.kind, "only">>

AssetAwaits ==
    {<<"addPrice", "only">>, <<"addHistory", "only">>, <<"retry", "only">>,
     <<"refresh", "price">>, <<"refresh", "history">>}

AllAwaits == {<<"all", "price">>, <<"all", "history">>, <<"all", "delay">>}

(* every awaited promise settles: a handler suspended at an await for an   *)
(* asset goes on from it, and so does handleRefreshAll from each of its    *)
(* awaits                                                                  *)
EverySettles ==
    /\ \A id \in 1..MaxAdds : \A await \in AssetAwaits :
          WF_vars(\E task \in inflight :
                     AwaitOf(task) = await /\ task.id = id /\ Settles(task))
    /\ \A await \in AllAwaits :
          WF_vars(\E task \in inflight : AwaitOf(task) = await /\ Settles(task))

(* The App with every purchase of the same amount: the flags of an asset   *)
(* do not depend on the amounts bought                                     *)
LivePurchase == [quantity |-> 1, pricePerCoin |-> 2]

LiveNext ==
    \/ \E ticker \in Tickers : HandleAddAsset(ticker, LivePurchase)
    \/ \E id \in 1..MaxAdds : HandleRemoveAsset(id)
    \/ \E id \in 1..MaxAdds : HandleRetryHistory(id)
    \/ \E id \in 1..MaxAdds : HandleRefreshAsset(id)
    \/ HandleRefreshAll
    \/ \E task \in inflight : Settles(task)

LiveSpec == AppInit /\ [][LiveNext]_vars /\ EverySettles

----------------------------------------------------------------------------
(* Vocabulary of the properties *)

NPoints == Len(chartData)
Samples == 1..NPoints
AssetIx == 1..Len(assets)
TxIx(a) == 1..Len(a.transactions)
TxTime(a, j) == GetTime(a.transactions[j].date)
HasTx(as) == \E k \in 1..Len(as) : Len(as[k].transactions) > 0

(* the date of the earliest transaction of an asset that has one *)
EarliestTx(a) ==
    CHOOSE m \in {TxTime(a, j) : j \in TxIx(a)} :
        \A j \in TxIx(a) : m <= TxTime(a, j)

(* the earliest transaction date across all assets, T0 *)
AllTxTimes(as) == UNION {{TxTime(as[k], j) : j \in TxIx(as[k])} : k \in 1..Len(as)}
EarliestOfAll(as) == CHOOSE m \in AllTxTimes(as) : \A x \in AllTxTimes(as) : m <= x

RECURSIVE SumOver(_, _)
SumOver(f, S) ==
    IF S = {} THEN 0
    ELSE LET x == CHOOSE y \in S : TRUE IN f[x] + SumOver(f, S \ {x})

----------------------------------------------------------------------------
(* C1: for every selector value, transaction set and custom date strings    *)
(* (empty and unparseable ones included) the resolved window has finite     *)
(* bounds with minTime strictly less than maxTime.                          *)
C1_WindowFiniteOrdered ==
    /\ IsFinite(minTime)
    /\ IsFinite(maxTime)
    /\ minTime.v < maxTime.v

(* the cases of C1 that do hold: every selector but CUSTOM with an         *)
(* unparseable bound *)
C1_ParseableWindows ==
    (timeRange # "CUSTOM" \/ (customStart # Unparseable /\ customEnd # Unparseable))
        => C1_WindowFiniteOrdered

----------------------------------------------------------------------------
(* C2: at every sample time strictly before an asset's earliest            *)
(* transaction date the asset's stack value is 0 and the point's           *)
(* marketValue is the sum of the other assets' stack values, whatever the  *)
(* asset's price data.                                                     *)
StackOfOthers(i, k) ==
    SumOver([j \in AssetIx |-> chartData[i].stack[assets[j].id]], AssetIx \ {k})

BeforeFirstTx(i, k) ==
    /\ Len(assets[k].transactions) > 0
    /\ IsFinite(chartData[i].timestamp)
    /\ chartData[i].timestamp.v < EarliestTx(assets[k])

C2_ZeroBeforeFirstTx ==
    \A i \in Samples : \A k \in AssetIx :
        BeforeFirstTx(i, k) =>
            /\ chartData[i].stack[assets[k].id] = 0
            /\ chartData[i].marketValue = StackOfOthers(i, k)

C2_Witness ==
    \E i \in Samples : \E k \in AssetIx :
        /\ BeforeFirstTx(i, k)
        /\ assets[k].currentPrice > 0
        /\ chartData[i].stack[assets[k].id] = 0
        /\ chartData[i].marketValue > 0
        /\ chartData[NPoints].stack[assets[k].id] > 0

----------------------------------------------------------------------------
(* C3: at every sample time t an asset's quantity and cost are the sums of *)
(* quantity and totalCost over exactly the transactions dated at or before *)
(* t (one dated exactly t counts), 0 and 0 when there is none, and the     *)
(* same for the ledger in any other order.                                 *)
DatedAtOrBefore(a, t) ==
    {j \in TxIx(a) : IsFinite(t) /\ TxTime(a, j) <= t.v}

QtySum(a, t) ==
    SumOver([j \in TxIx(a) |-> a.transactions[j].quantity], DatedAtOrBefore(a, t))

CostSum(a, t) ==
    SumOver([j \in TxIx(a) |-> a.transactions[j].totalCost], DatedAtOrBefore(a, t))

C3_CumulativeSums ==
    \A i \in Samples : \A k \in AssetIx :
        LET a == assets[k]
            t == chartData[i].timestamp
            back == CumulativeAt(Reverse(a.transactions), t, Len(a.transactions))
        IN /\ locals[i][k].qtyAtTime = QtySum(a, t)
           /\ locals[i][k].costAtTime = CostSum(a, t)
           /\ back.qtyAtTime = locals[i][k].qtyAtTime
           /\ back.costAtTime = locals[i][k].costAtTime

C3_Witness ==
    \E i \in Samples : \E k \in AssetIx :
        LET a == assets[k]
            t == chartData[i].timestamp
        IN /\ IsFinite(t)
           /\ Len(a.transactions) = 2
           /\ TxTime(a, 1) = t.v
           /\ TxTime(a, 2) < t.v
           /\ locals[i][k].qtyAtTime
                = a.transactions[1].quantity + a.transactions[2].quantity
           /\ \E h \in Samples : locals[h][k].qtyAtTime = a.transactions[2].quantity
           /\ \E h \in Samples : locals[h][k].qtyAtTime = 0

----------------------------------------------------------------------------
(* Prices of an owned asset at a sample *)

Priced(i, k) == locals[i][k].priced
FromHistory(i, k) == Priced(i, k) /\ HasHistory(assets[k]) /\ IsFinite(chartData[i].timestamp)
FromAnchors(i, k) == Priced(i, k) /\ ~HasHistory(assets[k]) /\ IsFinite(chartData[i].timestamp)
HistTime(a, j) == a.priceHistory[j][1]
HistPrice(a, j) == a.priceHistory[j][2]
LastIx(a) == Len(a.priceHistory)

----------------------------------------------------------------------------
(* C4: with a non-empty history sorted ascending, at every sample time at  *)
(* or before the first sample's timestamp the estimated price of an owned  *)
(* asset is the first sample's price.                                      *)
C4_LeftClamp ==
    \A i \in Samples : \A k \in AssetIx :
        (FromHistory(i, k) /\ chartData[i].timestamp.v <= HistTime(assets[k], 1))
            => locals[i][k].estimatedPrice = Money(HistPrice(assets[k], 1))

C4_Witness ==
    \E i \in Samples : \E k \in AssetIx :
        /\ FromHistory(i, k)
        /\ chartData[i].timestamp.v < HistTime(assets[k], 1)
        /\ LastIx(assets[k]) > 1
        /\ HistPrice(assets[k], LastIx(assets[k])) # HistPrice(assets[k], 1)
        /\ locals[i][k].estimatedPrice = Money(HistPrice(assets[k], 1))

----------------------------------------------------------------------------
(* C5 as stated: with a non-empty history sorted ascending, at every       *)
(* sample time at or after the last sample's timestamp (equal to it        *)
(* included, histories of one sample or with repeated timestamps included) *)
(* the estimated price of an owned asset is the last sample's price.       *)
C5_RightClampAlways ==
    \A i \in Samples : \A k \in AssetIx :
        (FromHistory(i, k)
            /\ chartData[i].timestamp.v >= HistTime(assets[k], LastIx(assets[k])))
            => locals[i][k].estimatedPrice
                 = Money(HistPrice(assets[k], LastIx(assets[k])))

(* the first history sample that carries the timestamp ts *)
FirstAt(a, ts) ==
    CHOOSE j \in 1..Len(a.priceHistory) :
        /\ HistTime(a, j) = ts
        /\ \A h \in 1..(j - 1) : HistTime(a, h) # ts

(* C5: with a non-empty history sorted ascending, at every sample time     *)
(* strictly after the last sample's timestamp the estimated price of an    *)
(* owned asset is the last sample's price, and at a sample time equal to   *)
(* it the price of the first sample carrying that timestamp (the last      *)
(* sample itself when the timestamp is not repeated).                      *)
C5_RightClamp ==
    \A i \in Samples : \A k \in AssetIx :
        LET a == assets[k]
            t == chartData[i].timestamp
            last == HistTime(a, LastIx(a))
        IN (FromHistory(i, k) /\ t.v >= last)
            => locals[i][k].estimatedPrice
                 = IF t.v > last THEN Money(HistPrice(a, LastIx(a)))
                   ELSE Money(HistPrice(a, FirstAt(a, last)))

C5_Witness ==
    \E i, h \in Samples : \E k \in AssetIx :
        LET a == assets[k]
            last == HistTime(a, LastIx(a))
        IN /\ FromHistory(i, k)
           /\ FromHistory(h, k)
           /\ chartData[i].timestamp.v = last
           /\ chartData[h].timestamp.v > last
           /\ FirstAt(a, last) < LastIx(a)
           /\ locals[i][k].estimatedPrice = Money(HistPrice(a, FirstAt(a, last)))
           /\ locals[h][k].estimatedPrice = Money(HistPrice(a, LastIx(a)))
           /\ locals[i][k].estimatedPrice # locals[h][k].estimatedPrice

----------------------------------------------------------------------------
(* C6 as stated: at a sample time equal to the timestamp of a history      *)
(* sample the estimated price is that sample's price, for every sample     *)
(* carrying the timestamp.                                                 *)
C6_ExactAtEverySample ==
    \A i \in Samples : \A k \in AssetIx :
        \A j \in 1..Len(assets[k].priceHistory) :
            (FromHistory(i, k) /\ chartData[i].timestamp.v = HistTime(assets[k], j))
                => locals[i][k].estimatedPrice = Money(HistPrice(assets[k], j))

(* C6: at a sample time equal to the timestamp of a history sample the     *)
(* estimated price is the price of the first sample carrying that          *)
(* timestamp.                                                              *)
C6_ExactAtFirstSample ==
    \A i \in Samples : \A k \in AssetIx :
        \A j \in 1..Len(assets[k].priceHistory) :
            (FromHistory(i, k) /\ chartData[i].timestamp.v = HistTime(assets[k], j))
                => locals[i][k].estimatedPrice
                     = Money(HistPrice(assets[k], FirstAt(assets[k], HistTime(assets[k], j))))

C6_Witness ==
    \E i \in Samples : \E k \in AssetIx :
        \E j \in 1..Len(assets[k].priceHistory) :
            LET a == assets[k]
                f == FirstAt(a, HistTime(a, j))
            IN /\ FromHistory(i, k)
               /\ chartData[i].timestamp.v = HistTime(a, j)
               /\ f > 1
               /\ f < j
               /\ HistPrice(a, f) # HistPrice(a, j)
               /\ locals[i][k].estimatedPrice = Money(HistPrice(a, f))

----------------------------------------------------------------------------
(* C7: for an owned asset without history, over the anchors {transaction   *)
(* date -> pricePerCoin} plus {now -> currentPrice} (anchors sharing a     *)
(* time count once, with the earliest-seen price) the estimated price is   *)
(* the first anchor's price at or before the first anchor, the last        *)
(* anchor's price at or after the last anchor, and between two consecutive *)
(* anchors the linear interpolation of their prices.                       *)
AnchorTimes(a) == {TxTime(a, j) : j \in TxIx(a)} \cup {now}

AnchorPriceOf(a, ts) ==
    IF \E j \in TxIx(a) : TxTime(a, j) = ts
    THEN LET j == CHOOSE x \in TxIx(a) :
                      /\ TxTime(a, x) = ts
                      /\ \A y \in 1..(x - 1) : TxTime(a, y) # ts
         IN a.transactions[j].pricePerCoin
    ELSE a.currentPrice

Consecutive(a, t1, t2) ==
    /\ t1 \in AnchorTimes(a)
    /\ t2 \in AnchorTimes(a)
    /\ t1 < t2
    /\ \A x \in AnchorTimes(a) : ~(t1 < x /\ x < t2)

C7_AnchorInterpolation ==
    \A i \in Samples : \A k \in AssetIx :
        FromAnchors(i, k) =>
            LET a == assets[k]
                t == chartData[i].timestamp.v
                price == locals[i][k].estimatedPrice
            IN /\ (\A x \in AnchorTimes(a) : t <= x)
                     => \E x \in AnchorTimes(a) :
                            t <= x /\ (\A y \in AnchorTimes(a) : x <= y)
                               /\ price = Money(AnchorPriceOf(a, x))
               /\ (\A x \in AnchorTimes(a) : t >= x)
                     => \E x \in AnchorTimes(a) :
                            (\A y \in AnchorTimes(a) : y <= x)
                               /\ price = Money(AnchorPriceOf(a, x))
               /\ \A t1, t2 \in AnchorTimes(a) :
                     (Consecutive(a, t1, t2) /\ t1 <= t /\ t <= t2)
                        => (price - Money(AnchorPriceOf(a, t1))) * ((t2 - t1) \div DayMs)
                             = (AnchorPriceOf(a, t2) - AnchorPriceOf(a, t1))
                                 * (t - t1) * SpanLcm

C7_Witness ==
    \E i \in Samples : \E k \in AssetIx :
        \E t1, t2 \in AnchorTimes(assets[k]) :
            LET a == assets[k]
                t == chartData[i].timestamp.v
            IN /\ FromAnchors(i, k)
               /\ Consecutive(a, t1, t2)
               /\ t2 - t1 = 2 * DayMs
               /\ t - t1 = DayMs
               /\ AnchorPriceOf(a, t1) # AnchorPriceOf(a, t2)
               /\ 2 * locals[i][k].estimatedPrice
                    = Money(AnchorPriceOf(a, t1)) + Money(AnchorPriceOf(a, t2))

----------------------------------------------------------------------------
(* C8: in the stacked chart the bottom edge of the first emitted region is *)
(* 0 at every sample and the bottom edge of every later emitted region     *)
(* equals the top edge of the previously emitted region at every sample,   *)
(* also when assets between them were skipped.                             *)
BottomAt(r, i) == stackedPaths[r].bottomPoints[NPoints + 1 - i]
TopAt(r, i) == stackedPaths[r].topPoints[i]

C8_BaselineContinuity ==
    \A r \in 1..Len(stackedPaths) : \A i \in Samples :
        /\ Len(stackedPaths[r].bottomPoints) = NPoints
        /\ Len(stackedPaths[r].topPoints) = NPoints
        /\ BottomAt(r, i) = IF r = 1 THEN 0 ELSE TopAt(r - 1, i)

AssetPos(id) == CHOOSE k \in AssetIx : assets[k].id = id

C8_Witness ==
    /\ Len(stackedPaths) >= 2
    /\ \E r \in 2..Len(stackedPaths) :
          /\ AssetPos(stackedPaths[r].id) > AssetPos(stackedPaths[r - 1].id) + 1
          /\ \E i, h \in Samples :
                /\ BottomAt(r, i) > 0
                /\ BottomAt(r, i) # BottomAt(r, h)
                /\ TopAt(r, i) > BottomAt(r, i)

----------------------------------------------------------------------------
----------------------------------------------------------------------------
(* C10: the window is [now - 86400000, now] for 24H, [now - 604800000,     *)
(* now] for 1W and [now - 2592000000, now] for 1M, whatever the asset      *)
(* list, the transactions and the customStart/customEnd values held.       *)
C10_FixedLookbacks ==
    /\ timeRange = "24H" => (minTime = Num(now - DayMs) /\ maxTime = Num(now))
    /\ timeRange = "1W" => (minTime = Num(now - 7 * DayMs) /\ maxTime = Num(now))
    /\ timeRange = "1M" => (minTime = Num(now - 30 * DayMs) /\ maxTime = Num(now))

C10_Witness ==
    /\ timeRange = "1W"
    /\ customStart = DateStr(2)
    /\ customEnd = Unparseable
    /\ HasTx(assets)
    /\ minTime = Num(now - 7 * DayMs)
    /\ maxTime = Num(now)

----------------------------------------------------------------------------
(* C11: with an empty asset list, for every selector, the series has       *)
(* steps + 1 points, each with marketValue 0 and costBasis 0, no stacked   *)
(* region is emitted, and the cost basis line is at the zero level (y =    *)
(* height) at every point.                                                 *)
ZeroLevel(y) == ~y.nan /\ y.val = 0 /\ y.of.mant > 0

C11_EmptyPortfolioFlat ==
    (assets = <<>>) =>
        /\ ~raised
        /\ Len(chartData) = Steps + 1
        /\ \A i \in Samples : chartData[i].marketValue = 0 /\ chartData[i].costBasis = 0
        /\ stackedPaths = <<>>
        /\ Len(costPath) = Steps + 1
        /\ \A i \in 1..Len(costPath) : ZeroLevel(costPath[i])

C11_Witness ==
    /\ assets = <<>>
    /\ timeRange = "CUSTOM"
    /\ customStart = DateStr(2)
    /\ Len(chartData) = Steps + 1
    /\ ZeroLevel(costPath[1])
    /\ ZeroLevel(costPath[Steps + 1])
    /\ maxY.mant = Placeholder

----------------------------------------------------------------------------
(* C12: two computations from identical assets, selector and custom bounds *)
(* give identical results whatever the wall-clock times they run at:       *)
(* whenever the inputs are those of the first render, the window, the      *)
(* series and the geometry are those of the first render.                  *)
FirstRender == Memo(assets, "ALL", EmptyStr, EmptyStr, GetTime(StartClock))

C12_ClockIndependent ==
    (timeRange = "ALL" /\ customStart = EmptyStr /\ customEnd = EmptyStr) =>
        /\ minTime = FirstRender.minTime
        /\ maxTime = FirstRender.maxTime
        /\ chartData = FirstRender.chartData
        /\ stackedPaths = FirstRender.stackedPaths

----------------------------------------------------------------------------
----------------------------------------------------------------------------
(* C14: the computation raises no exception and yields a series of         *)
(* steps + 1 points for every input: an empty asset list, assets with an   *)
(* empty ledger, with an absent or empty history, with a history of one    *)
(* sample, and CUSTOM bounds that are absent or unparseable.               *)
C14_NeverRaises ==
    /\ ~raised
    /\ Len(chartData) = Steps + 1

C14_Witness ==
    /\ ~raised
    /\ Len(chartData) = Steps + 1
    /\ timeRange = "CUSTOM"
    /\ customStart = DateStr(2)
    /\ customEnd = Unparseable
    /\ \E k \in AssetIx : Len(assets[k].transactions) = 0 /\ ~HasHistory(assets[k])
    /\ \E k \in AssetIx : Len(assets[k].priceHistory) = 1

----------------------------------------------------------------------------
(* C15: the ledger of an asset is append-only under every interleaving of  *)
(* the App's handlers and their completions: in every step, an asset that  *)
(* stays in the portfolio keeps every transaction it had, unmodified and   *)
(* in place.                                                               *)
IsPrefix(s, t) == Len(s) <= Len(t) /\ \A j \in 1..Len(s) : s[j] = t[j]

C15_LedgerAppendOnly ==
    [][\A k \in 1..Len(assets) : \A j \in 1..Len(assets') :
          assets[k].id = assets'[j].id
              => IsPrefix(assets[k].transactions, assets'[j].transactions)]_vars

----------------------------------------------------------------------------
(* C16: in every reachable App state, for every asset, quantity is the sum *)
(* of quantity over its transactions and totalCostBasis the sum of         *)
(* totalCost over its transactions.                                        *)
C16_CachedTotals ==
    \A k \in AssetIx :
        LET a == assets[k]
        IN /\ a.quantity
                = SumOver([j \in TxIx(a) |-> a.transactions[j].quantity], TxIx(a))
           /\ a.totalCostBasis
                = SumOver([j \in TxIx(a) |-> a.transactions[j].totalCost], TxIx(a))

C16_Witness ==
    \E k \in AssetIx :
        LET a == assets[k]
        IN /\ Len(a.transactions) = 2
           /\ a.transactions[1].quantity # a.transactions[2].quantity
           /\ a.quantity = 3
           /\ a.totalCostBasis = 8
           /\ a.currentPrice = FetchedPrice
           /\ Len(assets) = 2
           /\ \E task \in inflight : task.kind = "all" /\ task.i = 2

----------------------------------------------------------------------------
(* C17: with the CUSTOM selector and no start value the window is          *)
(* [now - 86400000, now] whatever the end value is; with a start value and *)
(* no end value maxTime is now.                                            *)
C17_CustomDefaults ==
    /\ (timeRange = "CUSTOM" /\ customStart = EmptyStr)
          => (minTime = Num(now - DayMs) /\ maxTime = Num(now))
    /\ (timeRange = "CUSTOM" /\ customStart # EmptyStr /\ customEnd = EmptyStr)
          => maxTime = Num(now)

C17_Witness ==
    /\ timeRange = "CUSTOM"
    /\ customStart = EmptyStr
    /\ customEnd = DateStr(1)
    /\ minTime = Num(now - DayMs)
    /\ maxTime = Num(now)

----------------------------------------------------------------------------
(* C18: with the ALL selector, when the asset list is empty or no asset    *)
(* has a transaction, the earliest date used is now - 86400000 (the window *)
(* starts there, less the bias), and the window ends at now with           *)
(* minTime < maxTime.                                                      *)
C18_AllWithoutTransactions ==
    (timeRange = "ALL" /\ ~HasTx(assets)) =>
        /\ minTime = Num((now - DayMs) - ((now - DayMs) \div EpsDen))
        /\ maxTime = Num(now)
        /\ minTime.v < maxTime.v

C18_Witness ==
    /\ timeRange = "ALL"
    /\ Len(assets) > 0
    /\ ~HasTx(assets)
    /\ now > GetTime(StartClock)
    /\ minTime.v < now - DayMs
    /\ maxTime = Num(now)

----------------------------------------------------------------------------
(* C19 as stated: the series has steps + 1 points whose timestamps are     *)
(* equally spaced and strictly increasing, the first equal to minTime and  *)
(* the last equal to maxTime.                                              *)
C19_EvenlySpaced ==
    /\ Len(chartData) = Steps + 1
    /\ \A i \in Samples : IsFinite(chartData[i].timestamp)
    /\ chartData[1].timestamp = minTime
    /\ chartData[Steps + 1].timestamp = maxTime
    /\ \A i \in 1..Steps :
          /\ chartData[i].timestamp.v < chartData[i + 1].timestamp.v
          /\ chartData[i + 1].timestamp.v - chartData[i].timestamp.v
               = chartData[2].timestamp.v - chartData[1].timestamp.v

(* the cases of C19 that do hold: every window with finite bounds *)
C19_EvenlySpacedWhenFinite ==
    (IsFinite(minTime) /\ IsFinite(maxTime)) => C19_EvenlySpaced

----------------------------------------------------------------------------
(* C20: at every point costBasis is the sum of the cumulative cost at t    *)
(* over exactly the assets whose cumulative quantity at t is > 0; an asset *)
(* whose cumulative quantity at t is <= 0 adds neither value nor cost,     *)
(* also when it has transactions dated at or before t.                     *)
OwnedAt(i) == {k \in AssetIx : QtySum(assets[k], chartData[i].timestamp) > 0}

C20_CostOfOwnedOnly ==
    \A i \in Samples :
        /\ chartData[i].costBasis
             = SumOver([k \in AssetIx |-> CostSum(assets[k], chartData[i].timestamp)],
                       OwnedAt(i))
        /\ \A k \in AssetIx \ OwnedAt(i) :
              /\ chartData[i].stack[assets[k].id] = 0
              /\ chartData[i].marketValue = StackOfOthers(i, k)

C20_Witness ==
    \E i \in Samples : \E k \in AssetIx :
        LET a == assets[k]
            t == chartData[i].timestamp
        IN /\ k \notin OwnedAt(i)
           /\ DatedAtOrBefore(a, t) # {}
           /\ CostSum(a, t) > 0
           /\ a.currentPrice > 0
           /\ OwnedAt(i) # {}
           /\ chartData[i].costBasis > 0
           /\ chartData[i].stack[a.id] = 0

----------------------------------------------------------------------------
(* C21: a stacked region is emitted for an asset if and only if its value  *)
(* is > 0 at one point of the series at least; the emitted regions are in  *)
(* the order of the asset list; an asset whose value is 0 at every point   *)
(* yields no region and leaves the running baseline as it was: the bottom  *)
(* edge of a region is the sum of the values of the assets listed before   *)
(* it, and its top edge is its own value above that.                       *)
ValuedAt(i, k) == chartData[i].stack[assets[k].id]
Valued(k) == \E i \in Samples : ValuedAt(i, k) > 0
ValuedBefore(k) == {j \in AssetIx : j < k /\ Valued(j)}

C21_RegionIffValued ==
    /\ Len(stackedPaths) = Cardinality({k \in AssetIx : Valued(k)})
    /\ \A k \in AssetIx :
          Valued(k) =>
              LET r == Cardinality(ValuedBefore(k)) + 1
              IN /\ stackedPaths[r].id = assets[k].id
                 /\ \A i \in Samples :
                       /\ BottomAt(r, i)
                            = SumOver([j \in AssetIx |-> ValuedAt(i, j)], 1..(k - 1))
                       /\ TopAt(r, i) = BottomAt(r, i) + ValuedAt(i, k)

C21_Witness ==
    \E k \in AssetIx :
        /\ ~Valued(k)
        /\ \E j \in AssetIx : j < k /\ Valued(j)
        /\ \E j \in AssetIx : j > k /\ Valued(j)
        /\ Len(stackedPaths) = 2
        /\ stackedPaths[1].id = assets[k - 1].id
        /\ stackedPaths[2].id = assets[k + 1].id
        /\ \E i \in Samples : BottomAt(2, i) > 0 /\ TopAt(2, i) > BottomAt(2, i)

----------------------------------------------------------------------------
(* C22: for every pointer position over a non-empty series the hover       *)
(* lookup clamps ratio to [0, 1] and selects index floor(ratio * (length - *)
(* 1)), a valid index in [0, length - 1]: the first point for ratio <= 0,  *)
(* the last point for ratio >= 1, and a point whose timestamp does not     *)
(* exceed minTime + ratio * (maxTime - minTime).                           *)
C22_HoverLookup ==
    pointer.moved =>
        LET r == pointer.ratio
            length == Len(chartData)
        IN /\ r.den > 0 /\ 0 <= r.num /\ r.num <= r.den
           /\ r.num * pointer.width = r.den * pointer.x
                 \/ (pointer.x <= 0 /\ r.num = 0)
                 \/ (pointer.x >= pointer.width /\ r.num = r.den)
           /\ pointer.index * r.den <= r.num * (length - 1)
           /\ (pointer.index + 1) * r.den > r.num * (length - 1)
           /\ 0 <= pointer.index /\ pointer.index <= length - 1
           /\ pointer.defined
           /\ r.num = 0 => pointer.index = 0
           /\ r.num = r.den => pointer.index = length - 1
           /\ hoverData.set =>
                 (pointer.x = hoverData.x => hoverData.data = chartData[pointer.index + 1])
           /\ ~NumLt(NumAdd(NumMulInt(minTime, r.den),
                            NumMulInt(NumSub(maxTime, minTime), r.num)),
                     NumMulInt(chartData[pointer.index + 1].timestamp, r.den))

C22_Witness ==
    /\ pointer.moved
    /\ hoverData.set
    /\ pointer.x = 1
    /\ pointer.index = 37
    /\ hoverData.data = chartData[38]
    /\ IsFinite(hoverData.data.timestamp)
    /\ hoverData.data.timestamp.v > minTime.v
    /\ (hoverData.data.timestamp.v - minTime.v) * 4 < maxTime.v - minTime.v
    /\ hoverData.data.marketValue > 0

----------------------------------------------------------------------------
(* C23: for every asset without history the anchor list used for the       *)
(* estimation is non-empty, strictly increasing in time, has one anchor    *)
(* for each distinct time among the transaction dates and now, and keeps   *)
(* for each time the anchor seen first in ledger order; with a transaction *)
(* dated exactly now, that transaction's pricePerCoin is kept and the      *)
(* currentPrice anchor is dropped.                                         *)
C23_AnchorList ==
    \A k \in AssetIx :
        ~HasHistory(assets[k]) =>
            LET a == assets[k]
                anchors == PriceAnchors(a, now)
            IN /\ Len(anchors) > 0
               /\ \A j \in 1..(Len(anchors) - 1) : anchors[j].time < anchors[j + 1].time
               /\ {anchors[j].time : j \in 1..Len(anchors)} = AnchorTimes(a)
               /\ \A j \in 1..Len(anchors) :
                     anchors[j].price = AnchorPriceOf(a, anchors[j].time)
               /\ \A x \in TxIx(a) :
                     (TxTime(a, x) = now /\ \A y \in 1..(x - 1) : TxTime(a, y) # now)
                        => anchors[Len(anchors)].price = a.transactions[x].pricePerCoin

C23_Witness ==
    \E k \in AssetIx :
        LET a == assets[k]
            anchors == PriceAnchors(a, now)
        IN /\ ~HasHistory(a)
           /\ Len(a.transactions) = 2
           /\ TxTime(a, 1) = now
           /\ TxTime(a, 2) = now
           /\ a.transactions[1].pricePerCoin # a.transactions[2].pricePerCoin
           /\ a.transactions[1].pricePerCoin # a.currentPrice
           /\ Len(anchors) = 1
           /\ anchors[1].price = a.transactions[1].pricePerCoin
           /\ FromAnchors(NPoints, k)
           /\ locals[NPoints][k].estimatedPrice = Money(a.transactions[1].pricePerCoin)

----------------------------------------------------------------------------
(* C24: the vertical scale maximum is strictly positive for every series   *)
(* (100 * 1.1 when every marketValue and costBasis is 0, else 1.1 times    *)
(* the largest marketValue or costBasis), so at every point the y of       *)
(* marketValue, of costBasis and of every stacked top and bottom is within *)
(* [0, height], and every x coordinate is within [0, width].               *)
LargestObserved ==
    CHOOSE m \in {chartData[i].marketValue : i \in Samples}
                    \cup {chartData[i].costBasis : i \in Samples} :
        \A i \in Samples : chartData[i].marketValue <= m /\ chartData[i].costBasis <= m

(* 0 <= height - (val / of) * height <= height *)
InCanvasY(y) ==
    /\ ~y.nan
    /\ y.of.mant > 0
    /\ y.val >= 0
    /\ \/ y.val \div y.of.unit < y.of.mant
       \/ (y.val - y.of.mant * y.of.unit) * y.of.pad[2]
             <= y.of.mant * y.of.unit * (y.of.pad[1] - y.of.pad[2])

(* 0 <= (num / den) * width <= width *)
InCanvasX(x) == ~x.nan /\ x.den > 0 /\ 0 <= x.num /\ x.num <= x.den

C24_ScalePositive ==
    /\ maxY.mant > 0
    /\ maxY.pad = <<11, 10>>
    /\ IF \A i \in Samples : chartData[i].marketValue = 0 /\ chartData[i].costBasis = 0
       THEN maxY.mant = 100 /\ maxY.unit = MoneyScale
       ELSE maxY.mant = LargestObserved /\ maxY.unit = 1

C24_YWithinCanvas ==
    /\ \A i \in Samples :
          /\ InCanvasY(GetY(chartData[i].marketValue, maxY))
          /\ InCanvasY(costPath[i])
    /\ \A r \in 1..Len(stackedPaths) : \A i \in Samples :
          /\ InCanvasY(GetY(TopAt(r, i), maxY))
          /\ InCanvasY(GetY(BottomAt(r, i), maxY))

C24_WithinCanvas ==
    /\ C24_ScalePositive
    /\ C24_YWithinCanvas
    /\ Len(xCoords) = NPoints
    /\ \A i \in 1..Len(xCoords) : InCanvasX(xCoords[i])

(* the cases of C24 that do hold: every window with finite bounds *)
C24_WithinCanvasWhenFinite ==
    /\ C24_ScalePositive
    /\ C24_YWithinCanvas
    /\ (IsFinite(minTime) /\ IsFinite(maxTime)) => C24_WithinCanvas

----------------------------------------------------------------------------
(* C25: at every sample index the top value of the last emitted region     *)
(* equals the point's marketValue, and with no region emitted the running  *)
(* baseline, still 0, equals marketValue too: the outline of the stack is  *)
(* the total value curve.                                                  *)
FinalBaseline(i) ==
    IF Len(stackedPaths) = 0 THEN 0 ELSE TopAt(Len(stackedPaths), i)

C25_OutlineIsTotal ==
    \A i \in Samples : FinalBaseline(i) = chartData[i].marketValue

C25_Witness ==
    /\ Len(stackedPaths) >= 2
    /\ Len(stackedPaths) < Len(assets)
    /\ \E i, h \in Samples :
          /\ chartData[i].marketValue > 0
          /\ chartData[i].marketValue # chartData[h].marketValue
          /\ TopAt(Len(stackedPaths), i) = chartData[i].marketValue
          /\ TopAt(1, i) > 0
          /\ TopAt(1, i) < chartData[i].marketValue

----------------------------------------------------------------------------
(* C26 as stated: for a window ending at now and an asset without price    *)
(* history whose transactions are all dated at or before now, the asset's  *)
(* value at the last point of the series is (sum of its transaction        *)
(* quantities) * currentPrice.                                             *)
QtyTotal(a) == SumOver([j \in TxIx(a) |-> a.transactions[j].quantity], TxIx(a))

EndsAtNow(k) ==
    /\ maxTime = Num(now)
    /\ ~HasHistory(assets[k])
    /\ \A j \in TxIx(assets[k]) : TxTime(assets[k], j) <= now

C26_RightEdgeIsCurrentValue ==
    \A k \in AssetIx :
        EndsAtNow(k) =>
            chartData[NPoints].stack[assets[k].id]
                = QtyTotal(assets[k]) * Money(assets[k].currentPrice)

(* the cases of C26 that do hold: a window with a finite start and no      *)
(* transaction dated exactly now                                           *)
C26_RightEdgeBeforeNow ==
    \A k \in AssetIx :
        (EndsAtNow(k) /\ IsFinite(minTime)
            /\ \A j \in TxIx(assets[k]) : TxTime(assets[k], j) < now)
            => chartData[NPoints].stack[assets[k].id]
                 = QtyTotal(assets[k]) * Money(assets[k].currentPrice)

(* a transaction dated exactly now decides the price at the right edge *)
C26_DatedNow ==
    \E k \in AssetIx :
        /\ EndsAtNow(k)
        /\ Len(assets[k].transactions) > 0
        /\ IsFinite(minTime)
        /\ TxTime(assets[k], 1) = now
        /\ chartData[NPoints].stack[assets[k].id]
             = QtyTotal(assets[k]) * Money(assets[k].transactions[1].pricePerCoin)
        /\ chartData[NPoints].stack[assets[k].id]
             # QtyTotal(assets[k]) * Money(assets[k].currentPrice)

----------------------------------------------------------------------------
(* C27: once handleRemoveAsset(id) was applied no asset with that id is in *)
(* the portfolio in any later state, whatever handler was in flight at the *)
(* removal and completes after it; and an asset added while a refresh-all  *)
(* is in flight stays in the portfolio when the refresh-all completes.     *)
(* Ids are never issued twice, so: no step brings in an asset whose id was *)
(* issued before the step, and a step that takes an asset out is the       *)
(* removal of that asset.                                                  *)
C27_RemovalIsFinal ==
    [][\A id \in 1..MaxAdds :
          /\ (id <= issued /\ ~HasId(assets, id)) => ~HasId(assets', id)
          /\ (HasId(assets, id) /\ ~HasId(assets', id))
                => assets' = FilterOut(assets, id)]_vars

----------------------------------------------------------------------------
(* C28: provided every price or history fetch eventually resolves or       *)
(* rejects, every asset that a handler marked as updating is eventually    *)
(* not updating (or no longer in the portfolio), and isLoading, set by     *)
(* handleRefreshAll, is eventually false, whichever fetches fail.          *)
Busy(id) == \E k \in AssetIx : assets[k].id = id /\ assets[k].isUpdating

----------------------------------------------------------------------------
(* C29: after any sequence of recordHistorySnapshot calls the stored       *)
(* history has at most 50 snapshots, which are the most recently recorded  *)
(* ones in recording order; a call made when the portfolio's total value   *)
(* is 0 leaves the history unchanged (it records nothing).                 *)
LastOf(s, n) == IF Len(s) <= n THEN s ELSE SubSeq(s, Len(s) - n + 1, Len(s))

C29_LastFifty ==
    /\ Len(history) <= 50
    /\ history = LastOf(recorded, 50)
    /\ Len(recorded) = calls - idle
    /\ \A j \in 1..Len(history) : history[j].totalValue # 0

C29_Witness ==
    /\ Len(recorded) = 51
    /\ idle = 1
    /\ Len(history) = 50
    /\ history[1] = recorded[2]
    /\ history[50] = recorded[51]
    /\ history[50].timestamp = calls
    /\ history[1].timestamp < history[50].timestamp

====
